---- MODULE Spec2Model ----
(***************************************************************************)
(* AveragedOptimizerWrapper (tensorflow_addons/optimizers/                 *)
(* average_wrapper.py): a wrapper around a base optimizer that keeps an    *)
(* 'average' slot per variable and issues an average update next to every  *)
(* train update of the base optimizer.                                     *)
(*                                                                         *)
(* Numbers are fixed-point with three decimals: 10000 stands for 10.0,     *)
(* a learning rate of 100 for 0.1.  Operations of the data-flow graph are  *)
(* records [kind, var, deps]; the execution engine runs a pending          *)
(* operation once every operation it depends on is done.                   *)
(***************************************************************************)
EXTENDS Integers, FiniteSets, Sequences, TLC

\* ------------------------------------------------------------------ bounds
\* Number of successful apply_gradients calls explored.
MaxSteps == 1
\* Largest iteration count a base optimizer instance has when it is wrapped.
MaxPreIter == 1

\* ------------------------------------------------------------- environment
\* Model variables; "m" is a non-trainable one (var.trainable is False).
Vars == {"w", "b", "m"}

Trainable(v) == v # "m"

\* Value each variable is initialised to (10.0, 5.0, 3.0).
InitialValue(v) == CASE v = "w" -> 10000 [] v = "b" -> 5000 [] OTHER -> 3000

\* Gradients handed to apply_gradients for a variable (2.0).
Gradients == {2000}

\* How a gradient reaches the wrapper: a dense tensor, or sparse slices whose
\* indices are unique or may repeat.
GradKinds == {"dense", "sparse", "sparse_dup"}

\* Python values passed as the constructor's `optimizer` argument: optimizer
\* instances (learning rate 0.1, already run for `iter` steps), strings, None.
OptimizerArgs ==
    {[type |-> "Optimizer", name |-> "SGD", lr |-> 100, iter |-> i] : i \in 0..MaxPreIter}
    \cup {[type |-> "str", name |-> n, lr |-> 0, iter |-> 0] : n \in {"sgd", "nope"}}
    \cup {[type |-> "NoneType", name |-> "", lr |-> 0, iter |-> 0]}

\* Python values passed as `sequential_update`: True, False, 1, 0.
SequentialArgs ==
    {[type |-> t, val |-> x] : t \in {"bool", "int"}, x \in {0, 1}}

NoOptimizer == [name |-> "", lr |-> 0]

VARIABLES
    pc,                  \* "new", "failed", "idle", "step", "assign", "config", "restored"
    error,               \* exception raised by the constructor or the call in progress, or "none"
    ctor_optimizer,      \* the constructor's arguments, as passed
    ctor_sequential,
    _optimizer,          \* self._optimizer: [name, lr]
    opt_iterations,      \* self._optimizer._iterations: [ref, val]
    _sequential_update,  \* self._sequential_update
    iterations,          \* self.iterations
    var,                 \* value of every model variable
    slots,               \* number of 'average' slots allocated per variable
    average,             \* contents of the 'average' slot per variable
    base_slots,          \* variables the base optimizer created its slots for
    pending,             \* operations issued and not yet run
    done,                \* <<kind, var>> of the operations run in this call
    call,                \* the call in progress and its argument
    pre,                 \* var, average, gradients at entry of the call in progress
    avg_after_train,     \* per variable: did its average op run after its train op
    first_apply,         \* "none", or is the latest apply_gradients the "first" or a "later" one
    resetup,             \* did the latest _create_slots meet a slot an apply had written
    before_equal,        \* were the two counters equal at entry of the latest apply_gradients
    config,              \* result of the latest get_config, or NoConfig
    restored             \* wrapper built by the latest from_config, or NoWrapper

vars == <<pc, error, ctor_optimizer, ctor_sequential, _optimizer, opt_iterations,
          _sequential_update, iterations, var, slots, average, base_slots, pending, done, call, pre, avg_after_train, first_apply,
          resetup, before_equal, config, restored>>

\* ---------------------------------------------------------- collaborators
\* tf.keras.optimizers.get: the registry resolves a known identifier to a
\* fresh optimizer with the class's default learning rate (0.01) and raises
\* ValueError for an unknown one.
keras_optimizers_get(identifier) ==
    IF identifier = "sgd"
    THEN [type |-> "Optimizer", name |-> "SGD", lr |-> 10, iter |-> 0]
    ELSE [type |-> "ValueError", name |-> identifier, lr |-> 0, iter |-> 0]

\* The base optimizer's update of a variable (plain gradient descent):
\* value - learning_rate * grad.
OptimizerApply(lr, grad, value) == value - ((lr * grad) \div 1000)

\* The averaging rule a subclass supplies: the arithmetic running mean of
\* the slot's contents, which stand for the iterations + 1 values seen so
\* far, and the variable's value.
average_op(value, average_value, n) ==
    ((average_value * (n + 1)) + value) \div (n + 2)

\* tf.keras.optimizers.serialize / deserialize of the base optimizer: the
\* class name and its hyperparameters; the iteration counter and the slots
\* are no part of a configuration.
keras_optimizers_serialize(optimizer) ==
    [class_name |-> optimizer.name, learning_rate |-> optimizer.lr]

keras_optimizers_deserialize(cfg) ==
    [type |-> "Optimizer", name |-> cfg.class_name, lr |-> cfg.learning_rate, iter |-> 0]

\* ------------------------------------------------------------ __init__
NoWrapper ==
    [error |-> "none", optimizer |-> NoOptimizer,
     opt_iterations |-> [ref |-> "own", val |-> 0], sequential_update |-> FALSE]

Raise(e) == [NoWrapper EXCEPT !.error = e]

\* __init__ without the isinstance(sequential_update, bool) check.
init_unchecked_flag(optimizer, sequential_update) ==
    LET resolved == IF optimizer.type = "str"
                    THEN keras_optimizers_get(optimizer.name)
                    ELSE optimizer
    IN  IF resolved.type = "ValueError" THEN Raise("ValueError")
        ELSE IF resolved.type # "Optimizer" THEN Raise("TypeError")
        ELSE [error |-> "none",
              optimizer |-> [name |-> resolved.name, lr |-> resolved.lr],
              opt_iterations |-> [ref |-> "own", val |-> resolved.iter],
              sequential_update |-> (sequential_update.val = 1)]

__init__(optimizer, sequential_update) ==
    LET resolved == IF optimizer.type = "str"
                    THEN keras_optimizers_get(optimizer.name)
                    ELSE optimizer
    IN  IF resolved.type = "ValueError" THEN Raise("ValueError")
        ELSE IF resolved.type # "Optimizer" THEN Raise("TypeError")
        ELSE IF sequential_update.type # "bool" THEN Raise("TypeError")
        ELSE [error |-> "none",
              optimizer |-> [name |-> resolved.name, lr |-> resolved.lr],
              opt_iterations |-> [ref |-> "own", val |-> resolved.iter],
              sequential_update |-> (sequential_update.val = 1)]

\* The base optimizer's iteration counter as the base optimizer reads it.
BaseIterations ==
    IF opt_iterations.ref = "wrapper" THEN iterations ELSE opt_iterations.val

\* ---------------------------------------------------------- _create_slots
\* add_slot(var, 'average'): allocates the slot, filled by the default
\* initializer (zeros), unless the variable already has one.
\* add_slot that allocates and fills the slot anew on every call.
add_slot_anew(count, value) == [count |-> 1, value |-> 0]

add_slot(count, value) ==
    IF count > 0 THEN [count |-> count, value |-> value]
    ELSE [count |-> 1, value |-> 0]

\* _create_slots that adds the 'average' slot for trainable variables only.
create_slots_trainable_only(var_list) ==
    [base_slots |-> base_slots \cup var_list,
     slots |-> [v \in Vars |-> IF v \in var_list /\ Trainable(v)
                               THEN add_slot(slots[v], average[v]).count
                               ELSE slots[v]],
     average |-> [v \in Vars |-> IF v \in var_list /\ Trainable(v)
                                 THEN add_slot(slots[v], average[v]).value
                                 ELSE average[v]]]

_create_slots(var_list) ==
    [base_slots |-> base_slots \cup var_list,
     slots |-> [v \in Vars |-> IF v \in var_list
                               THEN add_slot(slots[v], average[v]).count
                               ELSE slots[v]],
     average |-> [v \in Vars |-> IF v \in var_list
                                 THEN add_slot(slots[v], average[v]).value
                                 ELSE average[v]]]

\* ------------------------------------------------------ _resource_apply_*
TrainOp(grad, v) == [kind |-> "train", var |-> v, grad |-> grad, deps |-> {}]

\* _apply_average_op that never declares the control dependency.
apply_average_op_unordered(train_op, v) ==
    [kind |-> "avg", var |-> v, grad |-> 0, deps |-> {}]

\* _apply_average_op that always declares the control dependency.
apply_average_op_ordered(train_op, v) ==
    [kind |-> "avg", var |-> v, grad |-> 0, deps |-> {<<train_op.kind, train_op.var>>}]

_apply_average_op(train_op, v) ==
    [kind |-> "avg", var |-> v, grad |-> 0,
     deps |-> IF _sequential_update THEN {<<train_op.kind, train_op.var>>} ELSE {}]

_resource_apply_dense(grad, v) ==
    LET train_op == TrainOp(grad, v)
    IN  {train_op, _apply_average_op(train_op, v)}

_resource_apply_sparse(grad, v, indices) ==
    LET train_op == TrainOp(grad, v)
    IN  {train_op, _apply_average_op(train_op, v)}

_resource_apply_sparse_duplicate_indices(grad, v, indices) ==
    LET train_op == TrainOp(grad, v)
    IN  {train_op, _apply_average_op(train_op, v)}

\* The dispatch of one (gradient, variable) pair to its handler.
ApplyGradToUpdateVar(kind, grad, v) ==
    CASE kind = "dense" -> _resource_apply_dense(grad, v)
      [] kind = "sparse" -> _resource_apply_sparse(grad, v, <<0>>)
      [] OTHER -> _resource_apply_sparse_duplicate_indices(grad, v, <<0, 0>>)

\* ------------------------------------------------------------ get_config
NoConfig == [optimizer |-> [class_name |-> "", learning_rate |-> 0],
             sequential_update |-> FALSE, name |-> ""]

\* get_config that leaves 'sequential_update' out, so that from_config
\* falls back on the constructor's default (True).
get_config_without_flag ==
    [name |-> "AverageOptimizer",
     optimizer |-> keras_optimizers_serialize(_optimizer),
     sequential_update |-> TRUE]

get_config ==
    [name |-> "AverageOptimizer",
     optimizer |-> keras_optimizers_serialize(_optimizer),
     sequential_update |-> _sequential_update]

from_config(cfg) ==
    __init__(keras_optimizers_deserialize(cfg.optimizer),
             [type |-> "bool", val |-> IF cfg.sequential_update THEN 1 ELSE 0])

NoCall == [op |-> "none", vars |-> {}]

\* What a call in progress remembers of the state it started from.
Snapshot(grads) ==
    [var |-> var, average |-> average, iterations |-> iterations, grad |-> grads]

NoGrads == [v \in Vars |-> 0]

NoSnapshot == [var |-> NoGrads, average |-> NoGrads, iterations |-> 0, grad |-> NoGrads]

\* ------------------------------------------------------------------ Init
Init ==
    /\ pc = "new"
    /\ error = "none"
    /\ ctor_optimizer = [type |-> "NoneType", name |-> "", lr |-> 0, iter |-> 0]
    /\ ctor_sequential = [type |-> "bool", val |-> 1]
    /\ _optimizer = NoOptimizer
    /\ opt_iterations = [ref |-> "own", val |-> 0]
    /\ _sequential_update = FALSE
    /\ iterations = 0
    /\ var = [v \in Vars |-> InitialValue(v)]
    /\ slots = [v \in Vars |-> 0]
    /\ average = [v \in Vars |-> 0]
    /\ base_slots = {}
    /\ pending = {}
    /\ done = {}
    /\ call = NoCall
    /\ pre = NoSnapshot
    /\ avg_after_train = [v \in Vars |-> FALSE]
    /\ first_apply = "none"
    /\ before_equal = TRUE
    /\ resetup = FALSE
    /\ config = NoConfig
    /\ restored = NoWrapper

\* --------------------------------------------------------------- actions
\* AveragedOptimizerWrapper(optimizer, sequential_update)
\* Does var_list hold a variable whose slot exists and was written by an apply?
MeetsWrittenSlot(var_list) ==
    \E v \in var_list : slots[v] > 0 /\ average[v] # 0

Construct(optimizer, sequential_update) ==
    /\ pc = "new"
    /\ LET r == __init__(optimizer, sequential_update)
       IN  /\ pc' = IF r.error = "none" THEN "idle" ELSE "failed"
           /\ error' = r.error
           /\ _optimizer' = r.optimizer
           /\ opt_iterations' = r.opt_iterations
           /\ _sequential_update' = r.sequential_update
    /\ ctor_optimizer' = optimizer
    /\ ctor_sequential' = sequential_update
    /\ UNCHANGED <<iterations, var, slots, average, base_slots, pending,
                   done, call, pre, avg_after_train, first_apply, before_equal,
                   config, restored, resetup>>

\* _create_slots(var_list), called on its own
CreateSlots(var_list) ==
    /\ pc = "idle"
    /\ LET r == _create_slots(var_list)
       IN  /\ base_slots' = r.base_slots
           /\ slots' = r.slots
           /\ average' = r.average
    /\ resetup' = MeetsWrittenSlot(var_list)
    /\ UNCHANGED <<pc, error, ctor_optimizer, ctor_sequential, _optimizer, opt_iterations,
                   _sequential_update, iterations, var, pending, done, call, pre,
                   avg_after_train, first_apply, before_equal, config, restored>>

\* The counter's value copied into a counter the base optimizer keeps.
CopyIterationsValue == [ref |-> "own", val |-> iterations]

\* self._optimizer._iterations = self.iterations: the base optimizer's
\* counter becomes the wrapper's counter variable itself.
SetOptimizerIterations == [ref |-> "wrapper", val |-> 0]

\* apply_gradients(grads_and_vars): shares the counter, creates the slots of
\* the variables and issues a train and an average operation per pair.
\* kinds and grads give each variable's gradient.
ApplyGradients(var_list, kinds, grads) ==
    /\ pc = "idle"
    /\ iterations < MaxSteps
    /\ var_list # {}
    /\ before_equal' = (iterations = BaseIterations)
    /\ first_apply' = IF first_apply = "none" THEN "first" ELSE "later"
    /\ opt_iterations' = SetOptimizerIterations
    /\ LET r == _create_slots(var_list)
       IN  /\ base_slots' = r.base_slots
           /\ slots' = r.slots
           /\ average' = r.average
    /\ resetup' = MeetsWrittenSlot(var_list)
    /\ pending' = UNION {ApplyGradToUpdateVar(kinds[v], grads[v], v) : v \in var_list}
    /\ done' = {}
    /\ avg_after_train' = [v \in Vars |-> FALSE]
    /\ call' = [op |-> "apply_gradients", vars |-> var_list]
    /\ pre' = [var |-> var, average |-> _create_slots(var_list).average,
               iterations |-> iterations,
               grad |-> [v \in Vars |-> IF v \in var_list THEN grads[v] ELSE 0]]
    /\ pc' = "step"
    /\ UNCHANGED <<error, ctor_optimizer, ctor_sequential, _optimizer, _sequential_update,
                   iterations, var, config, restored>>

\* apply_gradients with no gradient for any variable: the counter is shared,
\* then the base class raises ValueError.
ApplyGradientsNoGrads ==
    /\ pc = "idle"
    /\ before_equal' = (iterations = BaseIterations)
    /\ first_apply' = IF first_apply = "none" THEN "first" ELSE "later"
    /\ opt_iterations' = SetOptimizerIterations
    /\ UNCHANGED <<pc, error, ctor_optimizer, ctor_sequential, _optimizer, _sequential_update,
                   iterations, var, slots, average, base_slots, pending,
                   done, call, pre, avg_after_train, config, restored, resetup>>

Runnable(op) == op \in pending /\ op.deps \subseteq done

\* The engine runs a train operation: the base optimizer's update.
RunTrain(op) ==
    /\ pc = "step"
    /\ Runnable(op)
    /\ op.kind = "train"
    /\ var' = [var EXCEPT ![op.var] = OptimizerApply(_optimizer.lr, op.grad, var[op.var])]
    /\ pending' = pending \ {op}
    /\ done' = done \cup {<<op.kind, op.var>>}
    /\ UNCHANGED <<pc, error, ctor_optimizer, ctor_sequential, _optimizer,
                   opt_iterations, _sequential_update, iterations, slots, average,
                   base_slots, call, pre, avg_after_train, first_apply,
                   before_equal, config, restored, resetup>>

\* get_slot that finds one slot whatever the variable.
get_slot_shared(v) == "w"

\* The slot the average operation of a variable updates: get_slot(var, 'average').
get_slot(v) == v

\* The engine runs an average operation: average_op(var, average_var).
RunAverage(op) ==
    /\ pc = "step"
    /\ Runnable(op)
    /\ op.kind = "avg"
    /\ average' = [average EXCEPT
          ![get_slot(op.var)] = average_op(var[op.var], average[get_slot(op.var)], iterations)]
    /\ avg_after_train' = [avg_after_train EXCEPT ![op.var] = <<"train", op.var>> \in done]
    /\ pending' = pending \ {op}
    /\ done' = done \cup {<<op.kind, op.var>>}
    /\ UNCHANGED <<pc, error, ctor_optimizer, ctor_sequential, _optimizer,
                   opt_iterations, _sequential_update, iterations, var, slots,
                   base_slots, call, pre, first_apply, before_equal,
                   config, restored, resetup>>

\* With every update operation run, the counter is incremented once and the
\* call returns.
ApplyGradientsEnd ==
    /\ pc = "step"
    /\ pending = {}
    /\ iterations' = iterations + 1
    /\ pc' = "idle"
    /\ done' = {}
    /\ call' = NoCall
    /\ pre' = NoSnapshot
    /\ avg_after_train' = [v \in Vars |-> FALSE]
    /\ UNCHANGED <<error, ctor_optimizer, ctor_sequential, _optimizer, opt_iterations,
                   _sequential_update, var, slots, average, base_slots,
                   pending, first_apply, before_equal, config, restored, resetup>>

\* var.assign(self.get_slot(var, 'average'))
AssignOp(v) == [kind |-> "assign", var |-> v, grad |-> 0, deps |-> {}]

\* assign_average_vars without the `if var.trainable` filter.
assign_average_vars_all(var_list) == var_list

\* The variables assign_average_vars(var_list) assigns.
assign_average_vars(var_list) == {v \in var_list : Trainable(v)}

\* assign_average_vars(var_list) when every variable it assigns has its slot
AssignAverageVars(var_list) ==
    /\ pc = "idle"
    /\ \A v \in assign_average_vars(var_list) : slots[v] > 0
    /\ pending' = {AssignOp(v) : v \in assign_average_vars(var_list)}
    /\ done' = {}
    /\ call' = [op |-> "assign_average_vars", vars |-> var_list]
    /\ pre' = Snapshot(NoGrads)
    /\ pc' = "assign"
    /\ UNCHANGED <<error, ctor_optimizer, ctor_sequential, _optimizer, opt_iterations,
                   _sequential_update, iterations, var, slots, average, base_slots, avg_after_train, first_apply, before_equal,
                   config, restored, resetup>>

\* assign_average_vars(var_list) when get_slot raises KeyError for one of the
\* variables: executing eagerly, the variables listed before it (assigned)
\* are assigned; building a graph, none is.
AssignAverageVarsFail(var_list, assigned) ==
    /\ pc = "idle"
    /\ \E v \in assign_average_vars(var_list) : slots[v] = 0
    /\ assigned \subseteq {v \in assign_average_vars(var_list) : slots[v] > 0}
    /\ pending' = {AssignOp(v) : v \in assigned}
    /\ done' = {}
    /\ call' = [op |-> "assign_average_vars", vars |-> var_list]
    /\ pre' = Snapshot(NoGrads)
    /\ error' = "KeyError"
    /\ pc' = "assign"
    /\ UNCHANGED <<ctor_optimizer, ctor_sequential, _optimizer, opt_iterations,
                   _sequential_update, iterations, var, slots, average, base_slots, avg_after_train, first_apply, before_equal,
                   config, restored, resetup>>

\* The engine runs one assignment of a variable to its average.
RunAssign(op) ==
    /\ pc = "assign"
    /\ Runnable(op)
    /\ op.kind = "assign"
    /\ var' = [var EXCEPT ![op.var] = average[get_slot(op.var)]]
    /\ pending' = pending \ {op}
    /\ done' = done \cup {<<op.kind, op.var>>}
    /\ UNCHANGED <<pc, error, ctor_optimizer, ctor_sequential, _optimizer,
                   opt_iterations, _sequential_update, iterations, slots, average,
                   base_slots, call, pre, avg_after_train, first_apply,
                   before_equal, config, restored, resetup>>

AssignAverageVarsEnd ==
    /\ pc = "assign"
    /\ pending = {}
    /\ pc' = "idle"
    /\ done' = {}
    /\ call' = NoCall
    /\ pre' = NoSnapshot
    /\ error' = "none"
    /\ UNCHANGED <<ctor_optimizer, ctor_sequential, _optimizer, opt_iterations,
                   _sequential_update, iterations, var, slots, average, base_slots, pending, avg_after_train, first_apply, before_equal,
                   config, restored, resetup>>

\* get_config(): the caller holds the configuration
GetConfig ==
    /\ pc = "idle"
    /\ config' = get_config
    /\ pc' = "config"
    /\ UNCHANGED <<error, ctor_optimizer, ctor_sequential, _optimizer,
                   opt_iterations, _sequential_update, iterations, var, slots, average,
                   base_slots, pending, done, call, pre, avg_after_train,
                   first_apply, before_equal, restored, resetup>>

\* from_config(config) on the configuration get_config returned
FromConfig ==
    /\ pc = "config"
    /\ restored' = from_config(config)
    /\ pc' = "restored"
    /\ UNCHANGED <<error, ctor_optimizer, ctor_sequential, _optimizer,
                   opt_iterations, _sequential_update, iterations, var, slots, average,
                   base_slots, pending, done, call, pre, avg_after_train,
                   first_apply, before_equal, config, resetup>>

\* The caller lets go of the configuration and the wrapper built from it.
ReleaseConfig ==
    /\ pc = "restored"
    /\ config' = NoConfig
    /\ restored' = NoWrapper
    /\ pc' = "idle"
    /\ UNCHANGED <<error, ctor_optimizer, ctor_sequential, _optimizer,
                   opt_iterations, _sequential_update, iterations, var, slots, average,
                   base_slots, pending, done, call, pre, avg_after_train,
                   first_apply, before_equal, resetup>>

TrainableVars == {v \in Vars : Trainable(v)}

Next ==
    \/ \E o \in OptimizerArgs, s \in SequentialArgs : Construct(o, s)
    \/ \E var_list \in SUBSET Vars : CreateSlots(var_list)
    \/ \E var_list \in SUBSET TrainableVars :
         \E kinds \in [var_list -> GradKinds], grads \in [var_list -> Gradients] :
           ApplyGradients(var_list, kinds, grads)
    \/ ApplyGradientsNoGrads
    \/ \E op \in pending : RunTrain(op)
    \/ \E op \in pending : RunAverage(op)
    \/ ApplyGradientsEnd
    \/ \E var_list \in SUBSET Vars : AssignAverageVars(var_list)
    \/ \E var_list \in SUBSET Vars, assigned \in SUBSET Vars :
         AssignAverageVarsFail(var_list, assigned)
    \/ \E op \in pending : RunAssign(op)
    \/ AssignAverageVarsEnd
    \/ GetConfig
    \/ FromConfig
    \/ ReleaseConfig

Spec == Init /\ [][Next]_vars

\* ---------------------------------------------------------------- claims
\* What the base optimizer's update makes of v's value at entry of the step.
Trained(v) == OptimizerApply(_optimizer.lr, pre.grad[v], pre.var[v])

Ran(kind, v) == <<kind, v>> \in done

\* C1: with sequential_update = true, in every execution of a step, a
\* variable's average update has run only if its train update has run before
\* it, and the averaging rule has read the updated value of the variable.
C1_SequentialAverageAfterTrain ==
    (pc = "step" /\ _sequential_update) =>
        \A v \in call.vars :
            Ran("avg", v) =>
                /\ Ran("train", v)
                /\ avg_after_train[v]
                /\ average[v] = average_op(Trained(v), pre.average[v], iterations)

\* A sequential step on two variables has run all its operations.
C1_Witness ==
    /\ pc = "step" /\ _sequential_update /\ pending = {}
    /\ call.vars = {"w", "b"}
    /\ Ran("avg", "w") /\ Ran("avg", "b")

\* C2: with sequential_update = false, no operation of a step waits for
\* another, and a variable's average update has read the variable either
\* before or after its train update: the value at entry when it ran first,
\* the updated value when it ran second.
C2_UnorderedEitherOrder ==
    (pc = "step" /\ ~_sequential_update) =>
        /\ \A op \in pending : Runnable(op)
        /\ \A v \in call.vars :
              Ran("avg", v) =>
                  average[v] = average_op(IF avg_after_train[v] THEN Trained(v)
                                          ELSE pre.var[v],
                                          pre.average[v], iterations)

\* One unordered step in which w's average update ran after its train update
\* and b's before it, b's slot differing from what the sequential mode yields.
C2_Witness ==
    /\ pc = "step" /\ ~_sequential_update /\ pending = {}
    /\ call.vars = {"w", "b"}
    /\ avg_after_train["w"] /\ ~avg_after_train["b"]
    /\ average["b"] # average_op(Trained("b"), pre.average["b"], iterations)
    /\ average["w"] = average_op(Trained("w"), pre.average["w"], iterations)

\* C3 as stated: the wrapper's and the base optimizer's iteration counters
\* are equal immediately before and immediately after every apply_gradients
\* call.
C3_CountersEqualBeforeAndAfter ==
    (first_apply # "none") =>
        /\ before_equal
        /\ (pc # "step" => iterations = BaseIterations)

\* C3 as amended: the counters are equal immediately after every
\* apply_gradients call and immediately before every call but the first;
\* before the first call they are equal exactly when the base optimizer was
\* wrapped with its counter at the wrapper's initial value 0.
C3_CountersEqualAfterFirstApply ==
    /\ (first_apply # "none" /\ pc # "step") => iterations = BaseIterations
    /\ first_apply = "later" => before_equal
    /\ first_apply = "first" => (before_equal <=> ctor_optimizer.iter = 0)

\* A base optimizer wrapped after one step of its own, and a second
\* apply_gradients call that has returned after a step was counted.
C3_Witness ==
    /\ pc = "idle" /\ first_apply = "later" /\ before_equal
    /\ ctor_optimizer.iter = 1
    /\ iterations = 1 /\ BaseIterations = 1

\* The scenario of C4: learning rate 0.1, one variable at 10.0, default
\* sequential mode.
C4_Scenario ==
    /\ ctor_optimizer.type = "Optimizer" /\ _optimizer.lr = 100
    /\ _sequential_update
    /\ call.vars = {"w"}
    /\ pending = {}

\* C4: after one step with gradient 2.0 from 10.0 the variable is 9.8 and the
\* average slot, which started at 10.0, is 9.9; after assign_average_vars the
\* variable reads 9.9.
C4_EndToEnd ==
    /\ (C4_Scenario /\ pc = "step" /\ iterations = 0
          /\ pre.var["w"] = 10000 /\ pre.grad["w"] = 2000) =>
            /\ pre.average["w"] = 10000
            /\ var["w"] = 9800
            /\ average["w"] = 9900
    /\ (C4_Scenario /\ pc = "assign" /\ iterations = 1 /\ error = "none"
          /\ pre.var["w"] = 9800) =>
            var["w"] = 9900

\* A step in which _create_slots(var_list) is called: on its own, or by an
\* apply_gradients call that starts on var_list.
SetUpSlotsCalled(var_list) ==
    \/ CreateSlots(var_list)
    \/ pc = "idle" /\ pc' = "step" /\ call'.vars = var_list

C6_SetUpSlotsIdempotent ==
    [][\A var_list \in SUBSET Vars :
         SetUpSlotsCalled(var_list)
         => \A v \in Vars :
              slots[v] > 0 => (average'[v] = average[v] /\ slots'[v] = slots[v])]_vars

\* _create_slots has just been called again on a variable whose slot a step
\* had written, and the slot still holds what the step wrote.
C6_Witness ==
    /\ pc = "idle" /\ resetup /\ iterations = 1
    /\ \E v \in Vars : slots[v] = 1 /\ average[v] # 0

\* C7: assign_average_vars(L) sets every trainable variable of L to the
\* contents its average slot had at the call, and leaves every non-trainable
\* variable of L, every variable outside L, every average slot, every slot
\* and the iteration counter as they were.
C7_AssignAverageVarsFrame ==
    (pc = "assign") =>
        /\ \A v \in Vars :
             IF v \in call.vars /\ Trainable(v)
             THEN /\ Ran("assign", v) => var[v] = pre.average[v]
                  /\ (pending = {} /\ error = "none") => var[v] = pre.average[v]
             ELSE var[v] = pre.var[v]
        /\ average = pre.average
        /\ iterations = pre.iterations

\* A completed call on all three variables after a step: the trainable ones
\* are overwritten with new values, the non-trainable one has a slot and is
\* left alone.
C7_Witness ==
    /\ pc = "assign" /\ pending = {} /\ error = "none"
    /\ call.vars = Vars
    /\ iterations = 1
    /\ slots["m"] = 1
    /\ var["w"] # pre.var["w"] /\ var["b"] # pre.var["b"]
    /\ var["w"] # var["b"]

\* C8: at every point of every interleaving of a call's operations, each
\* variable's value and slot are determined by that variable's own state at
\* entry and by which of its own operations have run, whatever the
\* operations of the other variables have done.
C8_VariablesIndependent ==
    (pc \in {"step", "assign"}) =>
        \A v \in Vars :
            /\ var[v] = IF Ran("train", v) THEN Trained(v)
                        ELSE IF Ran("assign", v) THEN pre.average[v]
                        ELSE pre.var[v]
            /\ average[v] = IF Ran("avg", v)
                            THEN average_op(IF avg_after_train[v] THEN Trained(v)
                                            ELSE pre.var[v],
                                            pre.average[v], iterations)
                            ELSE pre.average[v]

\* In the middle of an unordered step on two variables: w's train update and
\* b's average update have run, w's average update and b's train update have not.
C8_Witness ==
    /\ pc = "step"
    /\ call.vars = {"w", "b"}
    /\ done = {<<"train", "w">>, <<"avg", "b">>}
    /\ average["w"] # average["b"]

\* The registry resolves the identifier, or the argument is an optimizer.
Recognised(optimizer) ==
    \/ optimizer.type = "Optimizer"
    \/ optimizer.type = "str" /\ optimizer.name = "sgd"

\* The optimizer the constructor is to store for a recognised argument.
Stored(optimizer) ==
    IF optimizer.type = "str"
    THEN [name |-> "SGD", lr |-> 10]
    ELSE [name |-> optimizer.name, lr |-> optimizer.lr]

ConstructSucceeded ==
    /\ pc # "failed"
    /\ _optimizer = Stored(ctor_optimizer)
    /\ _sequential_update = (ctor_sequential.val = 1)

ConstructFailed(e) ==
    /\ pc = "failed" /\ error = e
    /\ _optimizer = NoOptimizer

\* C9 as stated: the constructor fails with a type error, producing no
\* wrapper, whenever the optimizer argument is not a recognised optimizer or
\* sequential_update is not a boolean, and otherwise stores both.
C9_ConstructTypeErrors ==
    (pc # "new") =>
        IF ~Recognised(ctor_optimizer) \/ ctor_sequential.type # "bool"
        THEN ConstructFailed("TypeError")
        ELSE ConstructSucceeded

\* C9 as amended: a string the registry does not know fails with the
\* registry's ValueError, whatever sequential_update is; any other argument
\* that is not an optimizer, and a sequential_update that is not a boolean
\* next to a recognised optimizer, fail with a type error; no wrapper is
\* produced in either case; otherwise the constructor stores both.
C9_ConstructErrors ==
    (pc # "new") =>
        IF ctor_optimizer.type = "str" /\ ~Recognised(ctor_optimizer)
        THEN ConstructFailed("ValueError")
        ELSE IF ~Recognised(ctor_optimizer) \/ ctor_sequential.type # "bool"
        THEN ConstructFailed("TypeError")
        ELSE ConstructSucceeded

\* The constructor has refused the integer 1 as sequential_update next to an
\* optimizer instance.
C9_Witness ==
    /\ pc = "failed" /\ error = "TypeError"
    /\ ctor_optimizer.type = "Optimizer"
    /\ ctor_sequential = [type |-> "int", val |-> 1]

\* C10: get_config holds the serialized base optimizer under 'optimizer' and
\* the flag under 'sequential_update' next to the base class's fields, and
\* from_config of it builds a wrapper whose base optimizer's configuration
\* and flag equal the original's.
C10_ConfigRoundTrip ==
    /\ (pc \in {"config", "restored"}) =>
          /\ config.optimizer = [class_name |-> _optimizer.name,
                                 learning_rate |-> _optimizer.lr]
          /\ config.sequential_update = _sequential_update
          /\ config.name = "AverageOptimizer"
    /\ (pc = "restored") =>
          /\ restored.error = "none"
          /\ keras_optimizers_serialize(restored.optimizer)
               = keras_optimizers_serialize(_optimizer)
          /\ restored.sequential_update = _sequential_update

\* A wrapper built from the identifier "sgd" in unordered mode has stepped
\* once and has been rebuilt from its configuration with a fresh counter.
C10_Witness ==
    /\ pc = "restored"
    /\ ctor_optimizer.type = "str"
    /\ ~_sequential_update
    /\ iterations = 1
    /\ restored.opt_iterations = [ref |-> "own", val |-> 0]
    /\ restored.optimizer.lr = 10

====
